---- MODULE Spec2Model ----
(***************************************************************************)
(* Private sub-network reconciliation of a cluster VPC.                    *)
(*                                                                         *)
(* GetPrivateSubnetIDS looks up the cluster VPC, lists its subnets and the *)
(* availability zones of the region, and for every zone without a private  *)
(* subnet creates one from the candidate blocks that buildSubnetAddress    *)
(* derives from the VPC CIDR block.                                        *)
(*                                                                         *)
(* An IPv4 address is the tuple of its four bytes (net.IP after To4()).    *)
(* A CIDR string "a.b.c.d/n" is the record [ip |-> <<a,b,c,d>>, len |-> n];*)
(* a parsed network (net.IPNet) is [IP |-> bytes, Mask |-> prefix length]. *)
(***************************************************************************)
EXTENDS Integers, Sequences, FiniteSets, TLC

\* ------------------------------------------------------------------------
\* Program constants
\* ------------------------------------------------------------------------

defaultSubnetMask == 27

defaultAWSPrivateSubnetTagKey == "kubernetes.io/role/internal-elb"

\* wait.PollImmediate(time.Second*5, time.Minute*5, ...), in seconds
pollInterval == 5

pollTimeout == 300

\* ------------------------------------------------------------------------
\* Bounds of the model
\* ------------------------------------------------------------------------

\* number of reconciliation passes one behaviour runs
MaxPasses == 2

\* number of availability zones of the region
MaxAZs == 2

\* number of subnets the VPC holds before the first pass
MaxInitSubnets == 2

\* the same number where two callers run their passes at once
MaxConcurrentInitSubnets == 1

\* ------------------------------------------------------------------------
\* IPv4 arithmetic (package net, and incrementIP)
\* ------------------------------------------------------------------------

RECURSIVE Pow2(_)
Pow2(n) == IF n = 0 THEN 1 ELSE 2 * Pow2(n - 1)

Min(a, b) == IF a < b THEN a ELSE b

Max(a, b) == IF a < b THEN b ELSE a

\* number of leading one bits of byte k (1..4) of net.CIDRMask(len, 32)
MaskBits(len, k) == Max(0, Min(8, len - 8 * (k - 1)))

\* b & m, where m is the byte with `ones` leading one bits
AndMask(b, ones) == b - (b % Pow2(8 - ones))

\* net.IP.Mask with a CIDR mask of prefix length len
MaskIP(ip, len) == [k \in 1..4 |-> AndMask(ip[k], MaskBits(len, k))]

\* net.IPNet.Contains
Contains(n, ip) == \A k \in 1..4 :
    AndMask(n.IP[k], MaskBits(n.Mask, k)) = AndMask(ip[k], MaskBits(n.Mask, k))

\* incrementIP: the four bytes are joined into one unsigned integer, inc is added
\* and the low four bytes are split off again, so the sum is taken modulo 2^32.
\* The three low bytes are added first and their carry goes into the top byte,
\* which keeps every intermediate value below 2^31.
incrementIP(ip, inc) ==
    LET low == ip[2] * 65536 + ip[3] * 256 + ip[4]
        sum == low + inc
        top == ip[1] + (sum \div 16777216)
    IN  <<top % 256, (sum \div 65536) % 256, (sum \div 256) % 256, sum % 256>>

\* ------------------------------------------------------------------------
\* CIDR strings
\* ------------------------------------------------------------------------

Cidr(ip, len) == [ip |-> ip, len |-> len]

\* the empty string
EmptyCidr == [ip |-> <<>>, len |-> -1]

\* a string net.ParseCIDR rejects, "10.0.0/25"
BadCidr == [ip |-> <<10, 0, 0>>, len |-> 25]

\* net.ParseCIDR succeeds
ParseOK(s) ==
    /\ Len(s.ip) = 4
    /\ \A k \in 1..4 : s.ip[k] \in 0..255
    /\ s.len \in 0..32

\* the *net.IPNet net.ParseCIDR returns: the address masked to the prefix
ParseCIDR(s) == [IP |-> MaskIP(s.ip, s.len), Mask |-> s.len]

\* net.IPNet.String()
NetString(n) == Cidr(n.IP, n.Mask)

\* ------------------------------------------------------------------------
\* Candidate blocks (buildSubnetAddress, generateAvailableSubnets)
\* ------------------------------------------------------------------------

containsNetworkNever(networks, toFind) == FALSE

containsNetwork(networks, toFind) ==
    \E k \in 1..Len(networks) : networks[k].IP = toFind

\* one iteration of the loop of generateAvailableSubnets: st.stopped is set when
\* the loop condition fromCIDR.Contains(incrementIP(toIPv4, i)) is false
genIterUnmasked(fromCIDR, toCIDR, st, i) ==
    IF st.stopped THEN st
    ELSE IF ~Contains(fromCIDR, incrementIP(toCIDR.IP, i))
    THEN [networks |-> st.networks, stopped |-> TRUE]
    ELSE LET nextFoundNetwork == incrementIP(toCIDR.IP, i)
         IN  IF containsNetwork(st.networks, nextFoundNetwork)
             THEN st
             ELSE [networks |-> Append(st.networks,
                                       [IP |-> nextFoundNetwork, Mask |-> toCIDR.Mask]),
                   stopped |-> FALSE]

genIterWithinToCIDR(fromCIDR, toCIDR, st, i) ==
    IF st.stopped THEN st
    ELSE IF ~Contains(toCIDR, incrementIP(toCIDR.IP, i))
    THEN [networks |-> st.networks, stopped |-> TRUE]
    ELSE LET nextFoundNetwork == incrementIP(toCIDR.IP, i)
             nextFoundNetworkMasked == MaskIP(nextFoundNetwork, toCIDR.Mask)
         IN  IF containsNetwork(st.networks, nextFoundNetworkMasked)
             THEN st
             ELSE [networks |-> Append(st.networks,
                                       [IP |-> nextFoundNetworkMasked, Mask |-> toCIDR.Mask]),
                   stopped |-> FALSE]

genIter(fromCIDR, toCIDR, st, i) ==
    IF st.stopped THEN st
    ELSE IF ~Contains(fromCIDR, incrementIP(toCIDR.IP, i))
    THEN [networks |-> st.networks, stopped |-> TRUE]
    ELSE LET nextFoundNetwork == incrementIP(toCIDR.IP, i)
             nextFoundNetworkMasked == MaskIP(nextFoundNetwork, toCIDR.Mask)
         IN  IF containsNetwork(st.networks, nextFoundNetworkMasked)
             THEN st
             ELSE [networks |-> Append(st.networks,
                                       [IP |-> nextFoundNetworkMasked, Mask |-> toCIDR.Mask]),
                   stopped |-> FALSE]

\* iterations lo, lo+1, .., lo+n-1 of the loop, in this order
RECURSIVE genRange(_, _, _, _, _)
genRange(fromCIDR, toCIDR, st, lo, n) ==
    IF st.stopped \/ n = 0 THEN st
    ELSE IF n = 1 THEN genIter(fromCIDR, toCIDR, st, lo)
    ELSE LET h == n \div 2
             left == genRange(fromCIDR, toCIDR, st, lo, h)
         IN  genRange(fromCIDR, toCIDR, left, lo + h, n - h)

\* the loop from iteration lo on, run in stretches of n, 2n, 4n, .. iterations
\* until its condition is false
RECURSIVE genLoop(_, _, _, _, _)
genLoop(fromCIDR, toCIDR, st, lo, n) ==
    LET r == genRange(fromCIDR, toCIDR, st, lo, n)
    IN  IF r.stopped THEN r.networks
        ELSE genLoop(fromCIDR, toCIDR, r, lo + n, 2 * n)

generateAvailableSubnets(fromCIDR, toCIDR) ==
    genLoop(fromCIDR, toCIDR,
            [networks |-> <<[IP |-> toCIDR.IP, Mask |-> toCIDR.Mask]>>, stopped |-> FALSE],
            0, 1)

Reverse(s) == [k \in 1..Len(s) |-> s[Len(s) + 1 - k]]

\* the error of buildSubnetAddress, "" when it returns networks
buildSubnetAddressErrGreaterOnly(cidrBlock) ==
    IF cidrBlock = EmptyCidr THEN "vpc cidr block can't be empty"
    ELSE IF ~ParseOK(cidrBlock) THEN "failed to parse vpc cidr block"
    ELSE IF ParseCIDR(cidrBlock).Mask > defaultSubnetMask
         THEN "vpc cidr block cannot contain generated subnet mask"
    ELSE ""

buildSubnetAddressErr(cidrBlock) ==
    IF cidrBlock = EmptyCidr THEN "vpc cidr block can't be empty"
    ELSE IF ~ParseOK(cidrBlock) THEN "failed to parse vpc cidr block"
    ELSE IF ParseCIDR(cidrBlock).Mask >= defaultSubnetMask
         THEN "vpc cidr block cannot contain generated subnet mask"
    ELSE ""

\* the networks buildSubnetAddress returns when it returns no error
buildSubnetAddressUnreversed(cidrBlock) ==
    LET awsCIDR == ParseCIDR(cidrBlock)
        croCIDR == ParseCIDR(Cidr(awsCIDR.IP, defaultSubnetMask))
    IN  generateAvailableSubnets(awsCIDR, croCIDR)

buildSubnetAddress(cidrBlock) ==
    LET awsCIDR == ParseCIDR(cidrBlock)
        croCIDR == ParseCIDR(Cidr(awsCIDR.IP, defaultSubnetMask))
    IN  Reverse(generateAvailableSubnets(awsCIDR, croCIDR))

\* ------------------------------------------------------------------------
\* Provider objects (ec2.Vpc, ec2.Subnet, ec2.AvailabilityZone, ec2.Tag)
\* ------------------------------------------------------------------------

clusterID == "cluster-1"

getOSDClusterTagKey(id) == "kubernetes.io/cluster/" \o id

Tag(k, v) == [Key |-> k, Value |-> v]

\* the tags getDefaultSubnetTags builds (no user infrastructure tags)
DefaultSubnetTags ==
    { Tag(defaultAWSPrivateSubnetTagKey, "1"),
      Tag("red-hat-clusterID", clusterID),
      Tag("Name", "Cloud Resource Subnet"),
      Tag("red-hat-managed", "true") }

\* a nil *ec2.Vpc and a nil *ec2.Subnet
NilVpc == [VpcId |-> "", CidrBlock |-> EmptyCidr]

NilSubnet ==
    [SubnetId |-> 0, VpcId |-> "", AvailabilityZone |-> "", CidrBlock |-> EmptyCidr, Tags |-> {}]

\* the provider's address-overlap test of two CIDR blocks
Overlaps(c1, c2) ==
    \/ Contains(ParseCIDR(c1), ParseCIDR(c2).IP)
    \/ Contains(ParseCIDR(c2), ParseCIDR(c1).IP)

\* error values: an awserr.Error carries a code, any other error does not
AwsErr(code) == [isAwsErr |-> TRUE, Code |-> code]

PlainErr(text) == [isAwsErr |-> FALSE, Code |-> text]

ConflictErr == AwsErr("InvalidSubnet.Conflict")

\* a nil error
NoErr == [isAwsErr |-> FALSE, Code |-> ""]

\* the errors of a provider call that are no address conflict
OtherErrs == { AwsErr("UnauthorizedOperation"), PlainErr("RequestCanceled") }

\* ------------------------------------------------------------------------
\* State
\* ------------------------------------------------------------------------

VARIABLES
    vpcs,      \* provider: the VPCs of the account
    subnets,   \* provider: the subnets, in the order DescribeSubnets lists them
    azs,       \* provider: the availability zones of the region
    flaky,     \* provider: DescribeSubnets may fail in this behaviour
    procs,     \* the callers of GetPrivateSubnetIDS
    pass,      \* per caller: the locals of its call of GetPrivateSubnetIDS
    passNo,    \* number of calls of GetPrivateSubnetIDS started so far
    created,   \* history: the identifiers of the subnets the passes created
    plan       \* a call of buildSubnetAddress on its own: input and outcome

vars == <<vpcs, subnets, azs, flaky, procs, pass, passNo, created, plan>>

provider == <<vpcs, azs, flaky, procs>>

\* history: how the caller's previous call of GetPrivateSubnetIDS returned
NoPass == [pc |-> "idle", result |-> <<>>]

\* the locals of a call of GetPrivateSubnetIDS that has not begun
IdlePass ==
    [ pc       |-> "idle",
      foundVPC |-> NilVpc,
      subs     |-> <<>>,
      azList   |-> <<>>,
      privSubs |-> <<>>,
      azIdx    |-> 0,
      cands    |-> <<>>,
      candIdx  |-> 0,
      newSub   |-> NilSubnet,
      elapsed  |-> 0,
      err      |-> <<>>,
      result   |-> <<>>,
      calls    |-> <<>>,
      prev     |-> NoPass ]

IdlePlan == [pc |-> "idle", cidr |-> EmptyCidr, err |-> "", networks |-> <<>>]

\* ------------------------------------------------------------------------
\* The functions of a pass that touch no provider state
\* ------------------------------------------------------------------------

\* the inner loop of getVPCIDByClusterSubnets: a tag of sub names the cluster
HasClusterTag(sub, id) ==
    \E tag \in sub.Tags :
        /\ tag.Value = "owned" \/ tag.Value = "shared"
        /\ tag.Key = getOSDClusterTagKey(id)

\* getVPCIDByClusterSubnets on a successful listing: the VPC of the first listed
\* subnet with the cluster tag, "" (an error) when there is none
getVPCIDByClusterSubnets(listed, id) ==
    IF \E k \in 1..Len(listed) : HasClusterTag(listed[k], id)
    THEN LET k == CHOOSE k \in 1..Len(listed) :
                      /\ HasClusterTag(listed[k], id)
                      /\ \A j \in 1..(k - 1) : ~HasClusterTag(listed[j], id)
         IN  listed[k].VpcId
    ELSE ""

\* the loop of GetVPCSubnets: the listed subnets of the VPC, in listing order
associatedSubs(listed, vpc) == SelectSeq(listed, LAMBDA sub : sub.VpcId = vpc.VpcId)

\* GetVPCSubnets after a successful listing: [err, subs]
GetVPCSubnets(listed, vpc) ==
    IF vpc = NilVpc
    THEN \* errorUtil.Wrap(nil, ..) is nil: no error and no subnets
         [err |-> <<>>, subs |-> <<>>]
    ELSE IF associatedSubs(listed, vpc) = <<>>
    THEN [err |-> <<"error, unable to find subnets associated with cluster vpc">>, subs |-> <<>>]
    ELSE [err |-> <<>>, subs |-> associatedSubs(listed, vpc)]

\* the private-subnet filter of GetPrivateSubnetIDS: a subnet is appended once for
\* each of its tags with the private-subnet key
RECURSIVE Copies(_, _)
Copies(x, n) == IF n = 0 THEN <<>> ELSE <<x>> \o Copies(x, n - 1)

RECURSIVE filterPrivate(_)
filterPrivate(subs) ==
    IF subs = <<>> THEN <<>>
    ELSE Copies(Head(subs),
                Cardinality({t \in Head(subs).Tags : t.Key = defaultAWSPrivateSubnetTagKey}))
         \o filterPrivate(Tail(subs))

\* the test of one subnet in privateSubnetExists
zoneMatches(subnet, zone) ==
    subnet.AvailabilityZone = zone.ZoneName /\ zone.State = "available"

privateSubnetExists(privSubs, zone) ==
    \E k \in 1..Len(privSubs) : zoneMatches(privSubs[k], zone)

\* privateSubnetExists dereferences a nil subnet before it finds a match
privateSubnetExistsPanics(privSubs, zone) ==
    \E k \in 1..Len(privSubs) :
        /\ privSubs[k] = NilSubnet
        /\ \A j \in 1..(k - 1) : ~zoneMatches(privSubs[j], zone)

\* the loop that builds subIDs dereferences a nil subnet
subIDsPanics(privSubs) == \E k \in 1..Len(privSubs) : privSubs[k] = NilSubnet

subIDs(privSubs) == [k \in 1..Len(privSubs) |-> privSubs[k].SubnetId]

\* the provider's answer to CreateTags: tags of the same key are replaced
WithTags(sub, tags) ==
    [sub EXCEPT !.Tags = {t \in @ : \A n \in tags : n.Key # t.Key} \cup tags]

\* the requests a pass sends, each with the provider's answer: err is the error
\* returned (NoErr when the request succeeded), id the subnet created or tagged
CreateSubnetCall(zone, cidr, err, id) ==
    [op |-> "CreateSubnet", zone |-> zone, cidr |-> cidr, err |-> err, id |-> id]

CreateTagsCall(id, err) ==
    [op |-> "CreateTags", zone |-> "", cidr |-> EmptyCidr, err |-> err, id |-> id]

\* ------------------------------------------------------------------------
\* Initial states
\* ------------------------------------------------------------------------

ZoneNames == <<"az-a", "az-b", "az-c", "az-d">>

ZoneStates == {"available", "impaired"}

\* the CIDR blocks of the cluster VPC the passes are run on
VpcCidrs ==
    { Cidr(<<10, 0, 0, 0>>, 25), Cidr(<<10, 0, 0, 0>>, 27), Cidr(<<10, 0, 0, 0>>, 28),
      EmptyCidr, BadCidr }

\* the blocks a subnet of the VPC may have before the first pass: the whole VPC
\* block or one of its blocks of the default subnet size
InitBlocks(cidr) ==
    IF buildSubnetAddressErr(cidr) = ""
    THEN LET networks == buildSubnetAddress(cidr)
         IN  {NetString(ParseCIDR(cidr))} \cup {NetString(networks[k]) : k \in 1..Len(networks)}
    ELSE IF ParseOK(cidr) THEN {NetString(ParseCIDR(cidr))}
    ELSE {Cidr(<<10, 0, 0, 0>>, 27)}

\* the tags of a subnet of the cluster: public or private
InitTagSets ==
    { {Tag(getOSDClusterTagKey(clusterID), "owned")},
      {Tag(getOSDClusterTagKey(clusterID), "shared"), Tag(defaultAWSPrivateSubnetTagKey, "1")} }

\* the subnets a VPC may hold before the first pass; the zone of a subnet without
\* the private-subnet tag is never read, so such a subnet is put in the first zone
InitPool(cidr, n) ==
    { s \in [zone : {ZoneNames[k] : k \in 1..n}, block : InitBlocks(cidr), tags : InitTagSets] :
        Cardinality(s.tags) = 1 => s.zone = ZoneNames[1] }

\* address a is below address b
IPLess(a, b) ==
    \E k \in 1..4 : a[k] < b[k] /\ \A j \in 1..(k - 1) : a[j] = b[j]

\* the subnets f[1..m] share no address and are listed by ascending address
NoOverlap(f, m) ==
    \A i, j \in 1..m :
        i < j => ~Overlaps(f[i].block, f[j].block) /\ IPLess(f[i].block.ip, f[j].block.ip)

Init ==
    \E cidr \in VpcCidrs, n \in 1..MaxAZs, m \in 0..MaxInitSubnets, fl \in BOOLEAN :
      \E f \in {g \in [1..m -> InitPool(cidr, n)] : NoOverlap(g, m)},
         st \in [1..n -> ZoneStates] :
        /\ fl => (m <= 1 /\ n = 1)
        /\ vpcs = {[VpcId |-> "vpc-1", CidrBlock |-> cidr]}
        /\ subnets = [k \in 1..m |->
                        [ SubnetId         |-> k,
                          VpcId            |-> "vpc-1",
                          AvailabilityZone |-> f[k].zone,
                          CidrBlock        |-> f[k].block,
                          Tags             |-> f[k].tags ]]
        /\ azs = [k \in 1..n |-> [ZoneName |-> ZoneNames[k], State |-> st[k]]]
        /\ flaky = fl
        /\ procs = {1}
        /\ pass = [p \in {1} |-> IdlePass]
        /\ passNo = 0
        /\ created = {}
        /\ plan = IdlePlan

\* buildSubnetAddress on the VPC blocks of the model, computed once
candidatesOf ==
    [c \in {c \in VpcCidrs : buildSubnetAddressErr(c) = ""} |-> buildSubnetAddress(c)]

\* ------------------------------------------------------------------------
\* GetPrivateSubnetIDS, one action for each stretch between provider calls
\* ------------------------------------------------------------------------

Failed(p, chain) ==
    [pass EXCEPT ![p] = [@ EXCEPT !.pc = "failed", !.err = chain, !.elapsed = 0]]

Panicked(p) == [pass EXCEPT ![p] = [@ EXCEPT !.pc = "panicked"]]

\* the caller invokes GetPrivateSubnetIDS
StartPass(p) ==
    /\ pass[p].pc \in {"idle", "done", "failed", "panicked"}
    /\ passNo < MaxPasses
    /\ passNo' = passNo + 1
    /\ pass' = [pass EXCEPT ![p] =
                  [IdlePass EXCEPT !.pc = "getClusterVpc",
                                   !.prev = [pc |-> pass[p].pc, result |-> pass[p].result]]]
    /\ UNCHANGED <<provider, subnets, created, plan>>

\* getClusterVpc with the outcome of its three calls: `fault` names the call that
\* fails, "" when none does
getClusterVpc(listed, allVpcs, fault) ==
    IF fault = "GetClusterID"
    THEN [err |-> <<"error getting clusterID", fault>>, vpc |-> NilVpc]
    ELSE IF fault = "DescribeSubnets"
    THEN [err |-> <<"error getting vpc id from associated subnets", fault>>, vpc |-> NilVpc]
    ELSE IF getVPCIDByClusterSubnets(listed, clusterID) = ""
    THEN [err |-> <<"error getting vpc id from associated subnets",
                    "failed to get cluster vpc id, no vpc found with osd cluster tag">>,
          vpc |-> NilVpc]
    ELSE IF fault = "DescribeVpcs"
    THEN [err |-> <<"error getting vpc with id", fault>>, vpc |-> NilVpc]
    ELSE LET found == {v \in allVpcs : v.VpcId = getVPCIDByClusterSubnets(listed, clusterID)}
         IN  IF found = {}
             THEN [err |-> <<"error, no vpc found">>, vpc |-> NilVpc]
             ELSE IF Cardinality(found) > 1
             THEN [err |-> <<"error, more than one vpc found associated with cluster subnets">>,
                   vpc |-> NilVpc]
             ELSE [err |-> <<>>, vpc |-> CHOOSE v \in found : TRUE]

GetClusterVpcFaults ==
    {"", "GetClusterID", "DescribeVpcs"} \cup (IF flaky THEN {"DescribeSubnets"} ELSE {})

GetClusterVpc(p) ==
    /\ pass[p].pc = "getClusterVpc"
    /\ \E fault \in GetClusterVpcFaults :
         LET out == getClusterVpc(subnets, vpcs, fault)
         IN  pass' = IF out.err # <<>>
                     THEN Failed(p, <<"error getting vpcs">> \o out.err)
                     ELSE [pass EXCEPT ![p] = [@ EXCEPT !.pc = "getVPCSubnets",
                                                        !.foundVPC = out.vpc]]
    /\ UNCHANGED <<provider, subnets, passNo, created, plan>>

\* GetVPCSubnets: one attempt of the poll of getSubnets and, when the listing
\* succeeds, the rest of GetVPCSubnets
PollSubnetsFailsAtOnce(p) ==
    /\ pass[p].pc = "getVPCSubnets"
    /\ \E listErr \in (IF flaky THEN BOOLEAN ELSE {FALSE}) :
         LET out == GetVPCSubnets(subnets, pass[p].foundVPC)
         IN  pass' =
               IF listErr
               THEN Failed(p, <<"error getting vpc subnets", "error getting subnets",
                                "DescribeSubnets">>)
               ELSE IF out.err # <<>>
                    THEN Failed(p, <<"error getting vpc subnets">> \o out.err)
                    ELSE [pass EXCEPT ![p] = [@ EXCEPT !.pc = "getAZs", !.subs = out.subs,
                                                       !.elapsed = 0]]
    /\ UNCHANGED <<provider, subnets, passNo, created, plan>>

PollSubnets(p) ==
    /\ pass[p].pc = "getVPCSubnets"
    /\ \E listErr \in (IF flaky THEN BOOLEAN ELSE {FALSE}), tick \in BOOLEAN :
         LET next == pass[p].elapsed + pollInterval
             out  == GetVPCSubnets(subnets, pass[p].foundVPC)
         IN  pass' =
               IF listErr
               THEN IF next > pollTimeout \/ (next = pollTimeout /\ ~tick)
                    THEN Failed(p, <<"error getting vpc subnets", "error getting subnets",
                                     "timed out waiting for the condition">>)
                    ELSE [pass EXCEPT ![p] = [@ EXCEPT !.elapsed = next]]
               ELSE IF out.err # <<>>
                    THEN Failed(p, <<"error getting vpc subnets">> \o out.err)
                    ELSE [pass EXCEPT ![p] = [@ EXCEPT !.pc = "getAZs", !.subs = out.subs,
                                                       !.elapsed = 0]]
    /\ UNCHANGED <<provider, subnets, passNo, created, plan>>

\* getAZs and the private-subnet filter
GetAZs(p) ==
    /\ pass[p].pc = "getAZs"
    /\ \E azErr \in BOOLEAN :
         pass' = IF azErr
                 THEN Failed(p, <<"error getting availability zones",
                                  "error getting availability zones",
                                  "DescribeAvailabilityZones">>)
                 ELSE [pass EXCEPT ![p] = [@ EXCEPT !.pc = "azLoop", !.azList = azs,
                                                    !.privSubs = filterPrivate(pass[p].subs),
                                                    !.azIdx = 1]]
    /\ UNCHANGED <<provider, subnets, passNo, created, plan>>

\* one iteration of the loop over the zones, up to the first CreateSubnet request
CheckAZ(p) ==
    /\ pass[p].pc = "azLoop"
    /\ pass[p].azIdx <= Len(pass[p].azList)
    /\ LET az  == pass[p].azList[pass[p].azIdx]
           bad == buildSubnetAddressErr(pass[p].foundVPC.CidrBlock)
       IN  pass' =
             IF privateSubnetExistsPanics(pass[p].privSubs, az)
             THEN Panicked(p)
             ELSE IF privateSubnetExists(pass[p].privSubs, az)
             THEN [pass EXCEPT ![p] = [@ EXCEPT !.azIdx = @ + 1]]
             ELSE IF bad # ""
             THEN Failed(p, <<"failed to created private subnet", "failed to build subnets", bad>>)
             ELSE [pass EXCEPT ![p] =
                     [@ EXCEPT !.pc = "createSubnet",
                               !.cands = candidatesOf[pass[p].foundVPC.CidrBlock],
                               !.candIdx = 1]]
    /\ UNCHANGED <<provider, subnets, passNo, created, plan>>

\* the end of GetPrivateSubnetIDS: the list of subnet ids
Finish(p) ==
    /\ pass[p].pc = "azLoop"
    /\ pass[p].azIdx > Len(pass[p].azList)
    /\ pass' =
         IF subIDsPanics(pass[p].privSubs)
         THEN Panicked(p)
         ELSE IF subIDs(pass[p].privSubs) = <<>>
         THEN Failed(p, <<"failed to get list of private subnet ids">>)
         ELSE [pass EXCEPT ![p] = [@ EXCEPT !.pc = "done",
                                            !.result = subIDs(pass[p].privSubs)]]
    /\ UNCHANGED <<provider, subnets, passNo, created, plan>>

\* the provider's answers to CreateSubnet: a block that overlaps a subnet of the
\* VPC is refused with the conflict code, any request may fail otherwise
ProviderConflictSameBlock(vpcId, cidr) ==
    \E k \in 1..Len(subnets) :
        subnets[k].VpcId = vpcId /\ subnets[k].CidrBlock = cidr

ProviderConflict(vpcId, cidr) ==
    \E k \in 1..Len(subnets) :
        subnets[k].VpcId = vpcId /\ Overlaps(subnets[k].CidrBlock, cidr)

CreateSubnetAnswers(vpcId, cidr) ==
    (IF ProviderConflict(vpcId, cidr) THEN {ConflictErr} ELSE {NoErr}) \cup OtherErrs

\* the test of createPrivateSubnet for the error it absorbs
isConflictWrongCode(e) == e # NoErr /\ e.isAwsErr /\ e.Code = "InvalidSubnet.Range"

isConflictAnyAwsErr(e) == e # NoErr /\ e.isAwsErr

isConflict(e) == e # NoErr /\ e.isAwsErr /\ e.Code = "InvalidSubnet.Conflict"

\* createPrivateSubnet after its loop ended without a subnet: it returns (nil, nil)
\* and GetPrivateSubnetIDS appends the nil subnet
exhausted(ps) ==
    [ps EXCEPT !.pc = "azLoop", !.privSubs = Append(@, NilSubnet), !.azIdx = @ + 1]

\* one CreateSubnet request of the loop of createPrivateSubnet
CreateSubnet(p) ==
    /\ pass[p].pc = "createSubnet"
    /\ LET cidr  == NetString(pass[p].cands[pass[p].candIdx])
           zone  == pass[p].azList[pass[p].azIdx].ZoneName
           vpcId == pass[p].foundVPC.VpcId
           new   == [ SubnetId         |-> Len(subnets) + 1,
                      VpcId            |-> vpcId,
                      AvailabilityZone |-> zone,
                      CidrBlock        |-> cidr,
                      Tags             |-> {} ]
       IN  \E e \in CreateSubnetAnswers(vpcId, cidr) :
             IF isConflict(e)
             THEN /\ pass' = [pass EXCEPT ![p] =
                       LET ps == [@ EXCEPT !.calls = Append(@, CreateSubnetCall(zone, cidr, e, 0)),
                                           !.candIdx = @ + 1]
                       IN  IF ps.candIdx > Len(ps.cands) THEN exhausted(ps) ELSE ps]
                  /\ UNCHANGED <<subnets, created>>
             ELSE IF e # NoErr
             THEN /\ pass' = [pass EXCEPT ![p] =
                       [@ EXCEPT !.calls = Append(@, CreateSubnetCall(zone, cidr, e, 0)),
                                 !.pc = "failed",
                                 !.err = <<"failed to created private subnet",
                                           "error creating new subnet", e.Code>>]]
                  /\ UNCHANGED <<subnets, created>>
             ELSE /\ subnets' = Append(subnets, new)
                  /\ created' = created \cup {new.SubnetId}
                  /\ pass' = [pass EXCEPT ![p] =
                       [@ EXCEPT !.calls = Append(@, CreateSubnetCall(zone, cidr, e, new.SubnetId)),
                                 !.pc = "tagSubnet",
                                 !.newSub = new]]
    /\ UNCHANGED <<provider, passNo, plan>>

\* tagPrivateSubnet on the subnet just created, and the rest of the loop body
TagSubnetRollsBack(p) ==
    /\ pass[p].pc = "tagSubnet"
    /\ LET id == pass[p].newSub.SubnetId
       IN  \E fault \in {"", "getDefaultSubnetTags", "CreateTags"} :
             IF fault = "getDefaultSubnetTags"
             THEN /\ pass' = Failed(p, <<"failed to created private subnet",
                                         "error getting clusterID">>)
                  /\ UNCHANGED <<subnets, created>>
             ELSE IF fault = "CreateTags"
             THEN /\ pass' = [pass EXCEPT ![p] =
                       [@ EXCEPT !.calls = Append(@, CreateTagsCall(id, AwsErr("UnauthorizedOperation"))),
                                 !.pc = "failed",
                                 !.err = <<"failed to created private subnet",
                                           "failed to tag subnet", "UnauthorizedOperation">>]]
                  /\ subnets' = SelectSeq(subnets, LAMBDA s : s.SubnetId # id)
                  /\ UNCHANGED created
             ELSE /\ subnets' = [k \in 1..Len(subnets) |->
                                   IF subnets[k].SubnetId = id
                                   THEN WithTags(subnets[k], DefaultSubnetTags)
                                   ELSE subnets[k]]
                  /\ UNCHANGED created
                  /\ pass' = [pass EXCEPT ![p] =
                       [@ EXCEPT !.calls = Append(@, CreateTagsCall(id, NoErr)),
                                 !.pc = "azLoop",
                                 !.privSubs = Append(@, pass[p].newSub),
                                 !.azIdx = @ + 1]]
    /\ UNCHANGED <<provider, passNo, plan>>

TagSubnetTagsZone(p) ==
    /\ pass[p].pc = "tagSubnet"
    /\ LET id == pass[p].newSub.SubnetId
       IN  \E fault \in {"", "getDefaultSubnetTags", "CreateTags"} :
             IF fault = "getDefaultSubnetTags"
             THEN /\ pass' = Failed(p, <<"failed to created private subnet",
                                         "error getting clusterID">>)
                  /\ UNCHANGED <<subnets, created>>
             ELSE IF fault = "CreateTags"
             THEN /\ pass' = [pass EXCEPT ![p] =
                       [@ EXCEPT !.calls = Append(@, CreateTagsCall(id, AwsErr("UnauthorizedOperation"))),
                                 !.pc = "failed",
                                 !.err = <<"failed to created private subnet",
                                           "failed to tag subnet", "UnauthorizedOperation">>]]
                  /\ UNCHANGED <<subnets, created>>
             ELSE /\ subnets' = [k \in 1..Len(subnets) |->
                                   IF subnets[k].AvailabilityZone = pass[p].newSub.AvailabilityZone
                                   THEN WithTags(subnets[k], DefaultSubnetTags)
                                   ELSE subnets[k]]
                  /\ UNCHANGED created
                  /\ pass' = [pass EXCEPT ![p] =
                       [@ EXCEPT !.calls = Append(@, CreateTagsCall(id, NoErr)),
                                 !.pc = "azLoop",
                                 !.privSubs = Append(@, pass[p].newSub),
                                 !.azIdx = @ + 1]]
    /\ UNCHANGED <<provider, passNo, plan>>

TagSubnet(p) ==
    /\ pass[p].pc = "tagSubnet"
    /\ LET id == pass[p].newSub.SubnetId
       IN  \E fault \in {"", "getDefaultSubnetTags", "CreateTags"} :
             IF fault = "getDefaultSubnetTags"
             THEN /\ pass' = Failed(p, <<"failed to created private subnet",
                                         "error getting clusterID">>)
                  /\ UNCHANGED <<subnets, created>>
             ELSE IF fault = "CreateTags"
             THEN /\ pass' = [pass EXCEPT ![p] =
                       [@ EXCEPT !.calls = Append(@, CreateTagsCall(id, AwsErr("UnauthorizedOperation"))),
                                 !.pc = "failed",
                                 !.err = <<"failed to created private subnet",
                                           "failed to tag subnet", "UnauthorizedOperation">>]]
                  /\ UNCHANGED <<subnets, created>>
             ELSE /\ subnets' = [k \in 1..Len(subnets) |->
                                   IF subnets[k].SubnetId = id
                                   THEN WithTags(subnets[k], DefaultSubnetTags)
                                   ELSE subnets[k]]
                  /\ UNCHANGED created
                  /\ pass' = [pass EXCEPT ![p] =
                       [@ EXCEPT !.calls = Append(@, CreateTagsCall(id, NoErr)),
                                 !.pc = "azLoop",
                                 !.privSubs = Append(@, pass[p].newSub),
                                 !.azIdx = @ + 1]]
    /\ UNCHANGED <<provider, passNo, plan>>

Next ==
    \/ \E p \in procs : StartPass(p)
    \/ \E p \in procs : GetClusterVpc(p)
    \/ \E p \in procs : PollSubnets(p)
    \/ \E p \in procs : GetAZs(p)
    \/ \E p \in procs : CheckAZ(p)
    \/ \E p \in procs : CreateSubnet(p)
    \/ \E p \in procs : TagSubnet(p)
    \/ \E p \in procs : Finish(p)

Spec == Init /\ [][Next]_vars

\* ------------------------------------------------------------------------
\* GetPrivateSubnetIDS on an account with two VPCs
\* ------------------------------------------------------------------------

\* the tags of a subnet: of the cluster (public or private) or of another cluster
InitTagSetsTwoVpcs ==
    InitTagSets \cup { {Tag(getOSDClusterTagKey("cluster-2"), "owned")} }

\* the subnets the two VPCs may hold before the first pass, all in the one zone
InitPoolTwoVpcs(cidr) ==
    [ vpc : {"vpc-1", "vpc-2"}, zone : {ZoneNames[1]}, block : InitBlocks(cidr),
      tags : InitTagSetsTwoVpcs ]

\* both VPCs have the same block; DescribeSubnets lists the subnets of both
InitTwoVpcs ==
    \E m \in 1..MaxInitSubnets, st \in ZoneStates :
      \E f \in {g \in [1..m -> InitPoolTwoVpcs(Cidr(<<10, 0, 0, 0>>, 25))] : NoOverlap(g, m)} :
        /\ vpcs = { [VpcId |-> "vpc-1", CidrBlock |-> Cidr(<<10, 0, 0, 0>>, 25)],
                    [VpcId |-> "vpc-2", CidrBlock |-> Cidr(<<10, 0, 0, 0>>, 25)] }
        /\ subnets = [k \in 1..m |->
                        [ SubnetId         |-> k,
                          VpcId            |-> f[k].vpc,
                          AvailabilityZone |-> f[k].zone,
                          CidrBlock        |-> f[k].block,
                          Tags             |-> f[k].tags ]]
        /\ azs = <<[ZoneName |-> ZoneNames[1], State |-> st]>>
        /\ flaky = FALSE
        /\ procs = {1}
        /\ pass = [p \in {1} |-> IdlePass]
        /\ passNo = 0
        /\ created = {}
        /\ plan = IdlePlan

SpecTwoVpcs == InitTwoVpcs /\ [][Next]_vars

\* ------------------------------------------------------------------------
\* GetPrivateSubnetIDS called by two callers at once
\* ------------------------------------------------------------------------

\* two reconcilers call GetPrivateSubnetIDS on the same cluster
Callers == {1, 2}

\* the region has one zone, which both callers find in need of a subnet or not
InitConcurrent ==
    \E n \in {1}, m \in 0..MaxConcurrentInitSubnets :
      \E f \in {g \in [1..m -> InitPool(Cidr(<<10, 0, 0, 0>>, 25), n)] : NoOverlap(g, m)},
         st \in [1..n -> ZoneStates] :
        /\ vpcs = {[VpcId |-> "vpc-1", CidrBlock |-> Cidr(<<10, 0, 0, 0>>, 25)]}
        /\ subnets = [k \in 1..m |->
                        [ SubnetId         |-> k,
                          VpcId            |-> "vpc-1",
                          AvailabilityZone |-> f[k].zone,
                          CidrBlock        |-> f[k].block,
                          Tags             |-> f[k].tags ]]
        /\ azs = [k \in 1..n |-> [ZoneName |-> ZoneNames[k], State |-> st[k]]]
        /\ flaky = FALSE
        /\ procs = Callers
        /\ pass = [p \in Callers |-> IdlePass]
        /\ passNo = 0
        /\ created = {}
        /\ plan = IdlePlan

SpecConcurrent == InitConcurrent /\ [][Next]_vars

\* ------------------------------------------------------------------------
\* buildSubnetAddress on its own
\* ------------------------------------------------------------------------

\* the VPC blocks buildSubnetAddress is called with: prefix lengths from PlanSpread
\* below the default subnet mask to 2 above it
PlanSpread == 5

PlanBases ==
    { <<10, 0, 0, 0>>, <<10, 0, 0, 77>>, <<10, 0, 1, 128>>, <<172, 16, 5, 200>>,
      <<192, 168, 255, 0>>, <<0, 0, 0, 0>>, <<255, 255, 255, 0>>, <<255, 255, 255, 255>> }

PlanCidrs ==
    { Cidr(b, l) : b \in PlanBases,
                   l \in (defaultSubnetMask - PlanSpread)..(defaultSubnetMask + 2) }
    \cup { EmptyCidr, BadCidr, Cidr(<<10, 0, 0, 256>>, 24), Cidr(<<10, 0, 0, 0>>, 33) }

InitPlan ==
    /\ plan \in [pc : {"called"}, cidr : PlanCidrs, err : {""}, networks : {<<>>}]
    /\ vpcs = {}
    /\ subnets = <<>>
    /\ azs = <<>>
    /\ flaky = FALSE
    /\ procs = {}
    /\ pass = <<>>
    /\ passNo = 0
    /\ created = {}

\* buildSubnetAddress returns
PlanReturn ==
    /\ plan.pc = "called"
    /\ plan' = [ pc       |-> "returned",
                 cidr     |-> plan.cidr,
                 err      |-> buildSubnetAddressErr(plan.cidr),
                 networks |-> IF buildSubnetAddressErr(plan.cidr) = ""
                              THEN buildSubnetAddress(plan.cidr)
                              ELSE <<>> ]
    /\ UNCHANGED <<vpcs, subnets, azs, flaky, procs, pass, passNo, created>>

NextPlan == PlanReturn

SpecPlan == InitPlan /\ [][NextPlan]_vars

\* ------------------------------------------------------------------------
\* GetVPCSubnets called on its own
\* ------------------------------------------------------------------------

\* the argument vpc: one of the two VPCs of the account, or nil
InitVPCSubnets ==
    \E m \in 0..MaxInitSubnets, fl \in BOOLEAN :
      \E f \in {g \in [1..m -> InitPoolTwoVpcs(Cidr(<<10, 0, 0, 0>>, 25))] : NoOverlap(g, m)},
         vpc \in { NilVpc,
                   [VpcId |-> "vpc-1", CidrBlock |-> Cidr(<<10, 0, 0, 0>>, 25)],
                   [VpcId |-> "vpc-2", CidrBlock |-> Cidr(<<10, 0, 0, 0>>, 25)] } :
        /\ fl => m = 0
        /\ vpcs = { [VpcId |-> "vpc-1", CidrBlock |-> Cidr(<<10, 0, 0, 0>>, 25)],
                    [VpcId |-> "vpc-2", CidrBlock |-> Cidr(<<10, 0, 0, 0>>, 25)] }
        /\ subnets = [k \in 1..m |->
                        [ SubnetId         |-> k,
                          VpcId            |-> f[k].vpc,
                          AvailabilityZone |-> f[k].zone,
                          CidrBlock        |-> f[k].block,
                          Tags             |-> f[k].tags ]]
        /\ azs = <<>>
        /\ flaky = fl
        /\ procs = {1}
        /\ pass = [p \in {1} |-> [IdlePass EXCEPT !.pc = "GetVPCSubnets", !.foundVPC = vpc]]
        /\ passNo = 0
        /\ created = {}
        /\ plan = IdlePlan

\* one attempt of the poll of getSubnets and, when the listing succeeds, the rest
\* of GetVPCSubnets up to its return: subs and err are what it returns
ReturnVPCSubnets(p) ==
    /\ pass[p].pc = "GetVPCSubnets"
    /\ \E listErr \in (IF flaky THEN BOOLEAN ELSE {FALSE}), tick \in BOOLEAN :
         LET next == pass[p].elapsed + pollInterval
             out  == GetVPCSubnets(subnets, pass[p].foundVPC)
         IN  pass' =
               IF listErr
               THEN IF next > pollTimeout \/ (next = pollTimeout /\ ~tick)
                    THEN [pass EXCEPT ![p] =
                            [@ EXCEPT !.pc = "returned", !.elapsed = 0,
                                      !.err = <<"error getting subnets",
                                                "timed out waiting for the condition">>]]
                    ELSE [pass EXCEPT ![p] = [@ EXCEPT !.elapsed = next]]
               ELSE [pass EXCEPT ![p] = [@ EXCEPT !.pc = "returned", !.elapsed = 0,
                                                  !.err = out.err, !.subs = out.subs]]
    /\ UNCHANGED <<provider, subnets, passNo, created, plan>>

NextVPCSubnets == \E p \in procs : ReturnVPCSubnets(p)

SpecVPCSubnets == InitVPCSubnets /\ [][NextVPCSubnets]_vars

\* ------------------------------------------------------------------------
\* The passes of a caller, or a call of buildSubnetAddress on its own
\* ------------------------------------------------------------------------

InitPassOrPlan == Init \/ InitPlan

NextPassOrPlan == Next \/ NextPlan

SpecPassOrPlan == InitPassOrPlan /\ [][NextPassOrPlan]_vars

\* ------------------------------------------------------------------------
\* buildSubnetAddress, one action for each iteration of the loop of
\* generateAvailableSubnets
\* ------------------------------------------------------------------------

\* the VPC blocks: prefix lengths from GenSpread below the default subnet mask
\* to 1 above it, and prefix length 0, the whole address space
GenSpread == 3

GenCidrs ==
    { Cidr(b, l) : b \in PlanBases,
                   l \in {0} \cup (defaultSubnetMask - GenSpread)..(defaultSubnetMask + 1) }
    \cup { EmptyCidr, BadCidr }

\* the iterations the model follows: one more than the addresses of the largest
\* of the blocks of a prefix length other than 0
GenCap == Pow2(32 - (defaultSubnetMask - GenSpread)) + 1

InitGen ==
    /\ plan \in [pc : {"called"}, cidr : GenCidrs, err : {""}, networks : {<<>>}, i : {0}]
    /\ vpcs = {}
    /\ subnets = <<>>
    /\ azs = <<>>
    /\ flaky = FALSE
    /\ procs = {}
    /\ pass = <<>>
    /\ passNo = 0
    /\ created = {}

\* the two CIDRs buildSubnetAddress hands to generateAvailableSubnets
awsCIDROf(cidrBlock) == ParseCIDR(cidrBlock)

croCIDROf(cidrBlock) == ParseCIDR(Cidr(ParseCIDR(cidrBlock).IP, defaultSubnetMask))

\* buildSubnetAddress up to the loop of generateAvailableSubnets
GenEnter ==
    /\ plan.pc = "called"
    /\ plan' = IF buildSubnetAddressErr(plan.cidr) # ""
               THEN [plan EXCEPT !.pc = "returned", !.err = buildSubnetAddressErr(plan.cidr)]
               ELSE [plan EXCEPT !.pc = "loop",
                                 !.networks = <<[IP   |-> croCIDROf(plan.cidr).IP,
                                                 Mask |-> croCIDROf(plan.cidr).Mask]>>]
    /\ UNCHANGED <<vpcs, subnets, azs, flaky, procs, pass, passNo, created>>

\* the test of the loop and, when it holds, the body of the loop for i; when it
\* fails, the reversal and the return of buildSubnetAddress
GenStep ==
    /\ plan.pc = "loop"
    /\ plan.i < GenCap
    /\ LET st == genIter(awsCIDROf(plan.cidr), croCIDROf(plan.cidr),
                         [networks |-> plan.networks, stopped |-> FALSE], plan.i)
       IN  plan' = IF st.stopped
                   THEN [plan EXCEPT !.pc = "returned", !.networks = Reverse(st.networks)]
                   ELSE [plan EXCEPT !.networks = st.networks, !.i = @ + 1]
    /\ UNCHANGED <<vpcs, subnets, azs, flaky, procs, pass, passNo, created>>

NextGen == GenEnter \/ GenStep

SpecGen == InitGen /\ [][NextGen]_vars

\* ------------------------------------------------------------------------
\* Properties
\* ------------------------------------------------------------------------

\* the CreateSubnet requests of the pass of p, and those for zone z
CreateCalls(p) == SelectSeq(pass[p].calls, LAMBDA c : c.op = "CreateSubnet")

CreateCallsFor(p, z) == SelectSeq(pass[p].calls, LAMBDA c : c.op = "CreateSubnet" /\ c.zone = z)

Terminal(p) == pass[p].pc \in {"done", "failed", "panicked"}

\* the pass of p holds its listing of the subnets and of the zones
Listed(p) == pass[p].pc \in {"azLoop", "createSubnet", "tagSubnet", "done"}
             \/ (Terminal(p) /\ pass[p].azList # <<>>)

HasPrivateTag(sub) == \E t \in sub.Tags : t.Key = defaultAWSPrivateSubnetTagKey

\* the subnet of the provider with identifier id
SubnetOf(id) == subnets[CHOOSE k \in 1..Len(subnets) : subnets[k].SubnetId = id]

\* zone z had a private-tagged subnet of the VPC when the pass of p listed them
CoveredAtListing(p, z) ==
    \E k \in 1..Len(pass[p].subs) :
        HasPrivateTag(pass[p].subs[k]) /\ pass[p].subs[k].AvailabilityZone = z

ZoneNamesOf(p) == {pass[p].azList[k].ZoneName : k \in 1..Len(pass[p].azList)}

AvailableZones(p) ==
    {pass[p].azList[k].ZoneName : k \in {j \in 1..Len(pass[p].azList) :
                                            pass[p].azList[j].State = "available"}}

\* the answers to the requests cs are conflicts up to the last, which is accepted
ConflictsThenAccepted(cs) ==
    /\ Len(cs) >= 1
    /\ cs[Len(cs)].err = NoErr
    /\ \A k \in 1..(Len(cs) - 1) : cs[k].err = ConflictErr

\* the requests cs use the candidates 1, 2, .. of the pass of p in this order
InCandidateOrder(p, cs) ==
    /\ Len(cs) <= Len(pass[p].cands)
    /\ \A k \in 1..Len(cs) : cs[k].cidr = NetString(pass[p].cands[k])

InErr(p, text) == \E k \in 1..Len(pass[p].err) : pass[p].err[k] = text

\* C1: no CreateSubnet request is issued for a zone whose state is not
\* "available".
C1_NoCreateInUnavailableZone ==
    \A p \in procs : \A k \in 1..Len(pass[p].calls) :
        pass[p].calls[k].op = "CreateSubnet" => pass[p].calls[k].zone \in AvailableZones(p)

\* every candidate of the pass of p was refused for zone z with a conflict
AllCandidatesConflict(p, z) ==
    /\ pass[p].cands # <<>>
    /\ Len(CreateCallsFor(p, z)) = Len(pass[p].cands)
    /\ \A k \in 1..Len(pass[p].cands) :
          /\ CreateCallsFor(p, z)[k].cidr = NetString(pass[p].cands[k])
          /\ CreateCallsFor(p, z)[k].err = ConflictErr

\* C2: when every candidate is refused with a conflict the pass is in the failed
\* state with an AddressSpaceExhausted error, and no subnet was created.
C2_ExhaustionIsAnError ==
    \A p \in procs : \A z \in ZoneNamesOf(p) :
        AllCandidatesConflict(p, z) =>
            /\ pass[p].pc = "failed"
            /\ InErr(p, "AddressSpaceExhausted")
            /\ \A k \in 1..Len(CreateCallsFor(p, z)) : CreateCallsFor(p, z)[k].id = 0

\* the zones that were available and had no private subnet when the pass listed
UncoveredAvailable(p) == {z \in AvailableZones(p) : ~CoveredAtListing(p, z)}

\* C3 as stated: with one available uncovered zone, N conflicts and then an
\* accepted request, the pass ends in success after exactly N+1 CreateSubnet
\* requests on the candidates 1..N+1, and the created subnet carries the
\* private-subnet tag.
C3_ConflictsThenSuccess ==
    \A p \in procs : \A z \in ZoneNamesOf(p) :
        ( /\ Terminal(p)
          /\ UncoveredAvailable(p) = {z}
          /\ ConflictsThenAccepted(CreateCallsFor(p, z)) )
        => /\ pass[p].pc = "done"
           /\ CreateCalls(p) = CreateCallsFor(p, z)
           /\ InCandidateOrder(p, CreateCalls(p))
           /\ HasPrivateTag(SubnetOf(CreateCalls(p)[Len(CreateCalls(p))].id))

\* the CreateTags request for subnet id was answered without error
TaggedOK(p, id) == \E k \in 1..Len(pass[p].calls) :
    pass[p].calls[k] = CreateTagsCall(id, NoErr)

\* C3 as amended: for every zone the pass provisions, N conflicts followed by an
\* accepted request are exactly N+1 CreateSubnet requests for that zone on the
\* candidates 1..N+1 in order; no conflict error reaches the caller; when the
\* CreateTags request for the new subnet succeeds the subnet carries the
\* private-subnet tag and is among the subnets of the pass (and of its result),
\* and when tagging fails the pass fails and the subnet stays untagged.
C3_ConflictsThenSuccessIfTagged ==
    \A p \in procs :
        /\ ~InErr(p, ConflictErr.Code)
        /\ \A z \in ZoneNamesOf(p) :
             LET cs == CreateCallsFor(p, z)
                 id == cs[Len(cs)].id
             IN  ConflictsThenAccepted(cs) =>
                   /\ InCandidateOrder(p, cs)
                   /\ \A k \in 1..(Len(cs) - 1) : cs[k].id = 0
                   /\ TaggedOK(p, id) =>
                        /\ HasPrivateTag(SubnetOf(id))
                        /\ \E k \in 1..Len(pass[p].privSubs) : pass[p].privSubs[k].SubnetId = id
                        /\ pass[p].pc = "done" =>
                             \E k \in 1..Len(pass[p].result) : pass[p].result[k] = id
                   /\ (~TaggedOK(p, id) /\ pass[p].pc # "tagSubnet") =>
                        /\ pass[p].pc = "failed"
                        /\ ~HasPrivateTag(SubnetOf(id))

\* a pass that ended in success after two conflicts and an accepted, tagged subnet
C3_Witness ==
    \E p \in procs : \E z \in ZoneNamesOf(p) :
        /\ pass[p].pc = "done"
        /\ z \in UncoveredAvailable(p)
        /\ Len(CreateCallsFor(p, z)) = 3
        /\ ConflictsThenAccepted(CreateCallsFor(p, z))
        /\ TaggedOK(p, CreateCallsFor(p, z)[3].id)

\* C4: when every available zone (there is at least one) had a private-tagged
\* subnet at the listing, the pass sends no CreateSubnet and no CreateTags request
\* and returns exactly the identifiers of the private-tagged subnets listed.
C4_CoveredCreatesNothing ==
    \A p \in procs :
        (Listed(p) /\ AvailableZones(p) # {} /\ UncoveredAvailable(p) = {}) =>
            /\ pass[p].calls = <<>>
            /\ pass[p].pc = "done" => pass[p].result = subIDs(filterPrivate(pass[p].subs))

\* the last address of network n
LastIP(n) == [k \in 1..4 |-> n.IP[k] + Pow2(8 - MaskBits(n.Mask, k)) - 1]

\* networks a and b share an address
NetsOverlap(a, b) == Contains(a, b.IP) \/ Contains(b, a.IP)

\* buildSubnetAddress returned for a parsable VPC block shorter than the default mask
PlannedSmaller ==
    /\ plan.pc = "returned"
    /\ ParseOK(plan.cidr)
    /\ plan.cidr.len < defaultSubnetMask

\* C5: for a VPC block with a prefix shorter than the default subnet mask every
\* returned block has the default prefix length, an aligned base address, lies
\* inside the VPC block, and no two returned blocks overlap.
C5_BlocksInsideDisjoint ==
    PlannedSmaller =>
        /\ plan.err = ""
        /\ \A k \in 1..Len(plan.networks) :
              /\ plan.networks[k].Mask = defaultSubnetMask
              /\ MaskIP(plan.networks[k].IP, defaultSubnetMask) = plan.networks[k].IP
              /\ Contains(ParseCIDR(plan.cidr), plan.networks[k].IP)
              /\ Contains(ParseCIDR(plan.cidr), LastIP(plan.networks[k]))
        /\ \A i, j \in 1..Len(plan.networks) :
              i # j => ~NetsOverlap(plan.networks[i], plan.networks[j])

\* eight blocks returned for a /24 at the top of the address space
C5_Witness ==
    /\ PlannedSmaller
    /\ plan.cidr = Cidr(<<255, 255, 255, 0>>, 24)
    /\ Len(plan.networks) = 8

\* C6: the returned base addresses are strictly decreasing, the first block is
\* the highest aligned block of the VPC block and the last is the VPC's base.
C6_HighestFirst ==
    PlannedSmaller =>
        /\ Len(plan.networks) >= 1
        /\ \A k \in 1..(Len(plan.networks) - 1) :
              IPLess(plan.networks[k + 1].IP, plan.networks[k].IP)
        /\ plan.networks[1].IP = MaskIP(LastIP(ParseCIDR(plan.cidr)), defaultSubnetMask)
        /\ plan.networks[Len(plan.networks)].IP = ParseCIDR(plan.cidr).IP

\* 10.0.0.0/24 gives 10.0.0.224/27 first and 10.0.0.0/27 last
C6_Witness ==
    /\ PlannedSmaller
    /\ plan.cidr = Cidr(<<10, 0, 0, 0>>, 24)
    /\ plan.networks[1] = [IP |-> <<10, 0, 0, 224>>, Mask |-> 27]
    /\ plan.networks[8] = [IP |-> <<10, 0, 0, 0>>, Mask |-> 27]

\* a VPC block buildSubnetAddress must refuse
Unusable(cidr) == cidr = EmptyCidr \/ ~ParseOK(cidr) \/ cidr.len >= defaultSubnetMask

\* the pass of p has gone past its first k zones without a request
Skipped(p, k) ==
    \E j \in 1..Len(pass[p].privSubs) :
        /\ pass[p].privSubs[j].AvailabilityZone = pass[p].azList[k].ZoneName
        /\ pass[p].azList[k].State = "available"

\* C7: for a VPC block that is empty, unparsable or of a prefix not shorter than
\* the default mask, buildSubnetAddress returns an error and no candidates, and
\* the pass sends no CreateSubnet request: it gets past a zone only when the zone
\* is covered, and fails at the first zone that is not.
C7_UnusableBlockCreatesNothing ==
    \A p \in procs :
        (pass[p].foundVPC # NilVpc /\ Unusable(pass[p].foundVPC.CidrBlock)) =>
            /\ buildSubnetAddressErr(pass[p].foundVPC.CidrBlock) # ""
            /\ pass[p].cands = <<>>
            /\ pass[p].calls = <<>>
            /\ pass[p].pc \notin {"createSubnet", "tagSubnet"}
            /\ \A k \in 1..Len(pass[p].azList) : k < pass[p].azIdx => Skipped(p, k)

\* a pass on a /27 VPC failed at an uncovered zone with the planner's error
C7_Witness ==
    \E p \in procs :
        /\ pass[p].foundVPC.CidrBlock = Cidr(<<10, 0, 0, 0>>, 27)
        /\ pass[p].pc = "failed"
        /\ pass[p].err = <<"failed to created private subnet", "failed to build subnets",
                           "vpc cidr block cannot contain generated subnet mask">>

\* C9: a CreateSubnet request answered with an error other than the address
\* conflict is the last request of the pass, and the pass has failed with an
\* error that wraps the provider's.
C9_OtherErrorAborts ==
    \A p \in procs : \A k \in 1..Len(pass[p].calls) :
        LET c == pass[p].calls[k]
        IN  (c.op = "CreateSubnet" /\ c.err # NoErr /\ c.err # ConflictErr) =>
                /\ k = Len(pass[p].calls)
                /\ pass[p].pc = "failed"
                /\ pass[p].err = <<"failed to created private subnet",
                                   "error creating new subnet", c.err.Code>>

\* the pass failed on the first zone after a conflict, with a zone still to visit
C9_Witness ==
    \E p \in procs :
        /\ pass[p].pc = "failed"
        /\ Len(pass[p].calls) = 2
        /\ pass[p].calls[1].err = ConflictErr
        /\ pass[p].calls[2].op = "CreateSubnet"
        /\ pass[p].calls[2].err = AwsErr("UnauthorizedOperation")
        /\ pass[p].azIdx < Len(pass[p].azList)

\* the state of zone z
ZoneAvailable(z) == \E k \in 1..Len(azs) : azs[k].ZoneName = z /\ azs[k].State = "available"

\* the listing of the pass of p shows, in zone z, a subnet that an earlier pass
\* created and did not tag
UntaggedLeftIn(p, z) ==
    \E k \in 1..Len(pass[p].subs) :
        /\ pass[p].subs[k].SubnetId \in created
        /\ pass[p].subs[k].AvailabilityZone = z
        /\ ~HasPrivateTag(pass[p].subs[k])

\* C10: a pass creates no second subnet in an available zone for which an
\* earlier pass created a subnet and failed to tag it.
C10_UntaggedSubnetCoversZone ==
    \A p \in procs : \A k \in 1..Len(pass[p].calls) :
        LET c == pass[p].calls[k]
        IN  ~ ( /\ c.op = "CreateSubnet"
                /\ c.err = NoErr
                /\ ZoneAvailable(c.zone)
                /\ UntaggedLeftIn(p, c.zone) )

\* the provider holds a subnet with identifier id
SubnetExists(id) == \E j \in 1..Len(subnets) : subnets[j].SubnetId = id

\* C11: a CreateTags request that fails follows the accepted CreateSubnet request
\* for the same subnet and is the last request of the pass; the pass has failed
\* with the tagging error; the subnet is still held by the provider, as is every
\* subnet a pass ever created, and the pass sent nothing but CreateSubnet and
\* CreateTags requests.
C11_TagFailureKeepsSubnet ==
    /\ \A id \in created : SubnetExists(id)
    /\ \A p \in procs : \A k \in 1..Len(pass[p].calls) :
          LET c == pass[p].calls[k]
          IN  /\ c.op \in {"CreateSubnet", "CreateTags"}
              /\ (c.op = "CreateTags" /\ c.err # NoErr) =>
                    /\ k = Len(pass[p].calls)
                    /\ k > 1
                    /\ pass[p].calls[k - 1] =
                          CreateSubnetCall(pass[p].newSub.AvailabilityZone,
                                           pass[p].newSub.CidrBlock, NoErr, c.id)
                    /\ pass[p].pc = "failed"
                    /\ pass[p].err = <<"failed to created private subnet",
                                       "failed to tag subnet", c.err.Code>>
                    /\ SubnetExists(c.id)
                    /\ ~HasPrivateTag(SubnetOf(c.id))

\* a pass failed on the CreateTags request for the subnet it had just created
C11_Witness ==
    \E p \in procs :
        /\ pass[p].pc = "failed"
        /\ pass[p].calls # <<>>
        /\ pass[p].calls[Len(pass[p].calls)].op = "CreateTags"
        /\ pass[p].calls[Len(pass[p].calls)].err # NoErr
        /\ pass[p].newSub.SubnetId \in created

\* the elements of sequence s
Range(s) == {s[k] : k \in 1..Len(s)}

\* C12: a pass that the same caller starts after a pass that returned success
\* sends no CreateSubnet request, and when it returns success it returns the same
\* set of subnet identifiers as the pass before.
C12_ReentryIdempotent ==
    \A p \in procs :
        pass[p].prev.pc = "done" =>
            /\ CreateCalls(p) = <<>>
            /\ pass[p].pc = "done" => Range(pass[p].result) = Range(pass[p].prev.result)

\* C12 where every zone of the region is available
C12_ReentryIdempotentAllAvailable ==
    \A p \in procs :
        (pass[p].prev.pc = "done" /\ \A k \in 1..Len(azs) : azs[k].State = "available") =>
            /\ CreateCalls(p) = <<>>
            /\ pass[p].pc = "done" => Range(pass[p].result) = Range(pass[p].prev.result)

\* the pass of p returned success and what it returned covers the available
\* zones: each has a private-tagged subnet of the VPC among the identifiers
\* returned, and every identifier returned is that of a subnet of the provider
SuccessCovers(p) ==
    /\ pass[p].err = <<>>
    /\ \A z \in AvailableZones(p) :
          \E id \in Range(pass[p].result) :
              /\ SubnetExists(id)
              /\ SubnetOf(id).AvailabilityZone = z
              /\ SubnetOf(id).VpcId = pass[p].foundVPC.VpcId
              /\ HasPrivateTag(SubnetOf(id))
    /\ \A id \in Range(pass[p].result) : SubnetExists(id)

\* C13: a pass that has ended has either returned success or returned an error,
\* and when it returned success every available zone has a private-tagged subnet
\* of the VPC among the returned identifiers, all of which exist.
C13_TwoTerminalStates ==
    \A p \in procs :
        /\ pass[p].pc # "panicked"
        /\ pass[p].pc = "failed" => (pass[p].err # <<>> /\ pass[p].result = <<>>)
        /\ pass[p].pc = "done" => SuccessCovers(p)

\* C13 without the pass that ends in a nil dereference
C13_SuccessCovers ==
    \A p \in procs :
        /\ pass[p].pc = "failed" => (pass[p].err # <<>> /\ pass[p].result = <<>>)
        /\ pass[p].pc = "done" => SuccessCovers(p)

\* the VPCs that hold a subnet with the ownership tag of the cluster
ClusterVpcIds ==
    {subnets[k].VpcId : k \in {j \in 1..Len(subnets) : HasClusterTag(subnets[j], clusterID)}}

\* the pass of p is past getClusterVpc
LookedUp(p) == pass[p].pc \notin {"idle", "getClusterVpc"}

\* the lookup of the pass of p failed and the pass sent no request
LookupFailed(p) ==
    /\ pass[p].pc = "failed"
    /\ pass[p].err # <<>>
    /\ pass[p].err[1] = "error getting vpcs"
    /\ pass[p].foundVPC = NilVpc
    /\ pass[p].calls = <<>>

\* C14: when the subnets with the ownership tag of the cluster belong to no VPC
\* or to more than one, the lookup of the VPC fails, no VPC is picked and the
\* pass sends no request.
C14_LookupFailsUnlessOneVpc ==
    \A p \in procs :
        (LookedUp(p) /\ Cardinality(ClusterVpcIds) # 1) => LookupFailed(p)

\* C14 for the case that no subnet has the ownership tag of the cluster
C14_NoMatchFails ==
    \A p \in procs :
        (LookedUp(p) /\ ClusterVpcIds = {}) => LookupFailed(p)

\* the error of a pass whose poll of the subnet listing ran out of time
PollTimedOut ==
    <<"error getting vpc subnets", "error getting subnets", "timed out waiting for the condition">>

\* C15: a step of the poll of getSubnets either leaves the pass polling, one
\* interval later and within the deadline (the listing failed), or hands the
\* subnets of the successful listing to the pass, or fails the pass; the poll
\* fails the pass with the timeout error only, never with the error of the
\* listing, and only when the next attempt would not be before the deadline.
C15_PollRetriesUntilDeadline ==
    [][\A p \in procs :
         (pass[p].pc = "getVPCSubnets" /\ pass'[p] # pass[p]) =>
            \/ /\ pass'[p].pc = "getVPCSubnets"
               /\ pass'[p].elapsed = pass[p].elapsed + pollInterval
               /\ pass'[p].elapsed <= pollTimeout
               /\ pass'[p].err = <<>>
            \/ /\ pass'[p].pc = "getAZs"
               /\ pass'[p].subs = associatedSubs(subnets, pass[p].foundVPC)
               /\ pass'[p].err = <<>>
            \/ /\ pass'[p].pc = "failed"
               /\ pass'[p].err = <<"error getting vpc subnets",
                                   "error, unable to find subnets associated with cluster vpc">>
            \/ /\ pass'[p].pc = "failed"
               /\ pass'[p].err = PollTimedOut
               /\ pass[p].elapsed + pollInterval >= pollTimeout]_vars

\* a pass whose every listing failed until the deadline
C15_Witness ==
    \E p \in procs : pass[p].pc = "failed" /\ pass[p].err = PollTimedOut

\* the blocks a subnet of the model may have, and the overlap test of the provider
\* on each pair of them, computed once
AllBlocks == UNION {InitBlocks(c) : c \in VpcCidrs}

overlapOf == [c1 \in AllBlocks |-> [c2 \in AllBlocks |-> Overlaps(c1, c2)]]

CreatedPrivateIn(z) ==
    {k \in 1..Len(subnets) : /\ subnets[k].SubnetId \in created
                             /\ subnets[k].AvailabilityZone = z
                             /\ HasPrivateTag(subnets[k])}

\* C17: in no zone have the passes created more than one private subnet.
C17_OneCreatedPrivateSubnetPerZone ==
    \A k \in 1..Len(azs) : Cardinality(CreatedPrivateIn(azs[k].ZoneName)) <= 1

\* C17 for the zones that are available
C17_OnePerAvailableZone ==
    \A k \in 1..Len(azs) :
        azs[k].State = "available" => Cardinality(CreatedPrivateIn(azs[k].ZoneName)) <= 1

\* C18: no pass fails with the error of a DescribeSubnets request: the listing of
\* the subnets is polled from the first request of the pass on, so an error of
\* the listing can only end in the timeout of the poll.
C18_FirstListingIsPolled ==
    \A p \in procs :
        pass[p].pc = "failed" =>
            /\ ~InErr(p, "DescribeSubnets")
            /\ InErr(p, "error getting vpc id from associated subnets") =>
                  InErr(p, "failed to get cluster vpc id, no vpc found with osd cluster tag")

\* the address after the last address of network n, as incrementIP computes it
AddressAfter(n) == incrementIP(LastIP(n), 1)

\* C19: the loop of generateAvailableSubnets reaches an address outside the
\* parent block and stops: it visits the addresses from the base of the parent
\* upwards, so the address after the last address of the parent, 0.0.0.0 when the
\* increment wraps, lies outside the parent.
C19_LoopLeavesParent ==
    plan.pc = "loop" => ~Contains(awsCIDROf(plan.cidr), AddressAfter(awsCIDROf(plan.cidr)))

\* C19 for the parents of a prefix length other than 0: the test of the loop
\* fails at the iteration that follows the last address of the parent, not before
C19_LoopLeavesSmallerParent ==
    (plan.pc = "loop" /\ plan.cidr.len # 0) =>
        /\ ~Contains(awsCIDROf(plan.cidr), AddressAfter(awsCIDROf(plan.cidr)))
        /\ plan.i <= Pow2(32 - plan.cidr.len)
        /\ plan.i < Pow2(32 - plan.cidr.len) <=>
              Contains(awsCIDROf(plan.cidr), incrementIP(croCIDROf(plan.cidr).IP, plan.i))

\* on the whole address space the loop is still running after GenCap iterations
C19_LoopStillRunning ==
    ~(plan.pc = "loop" /\ plan.cidr.len = 0 /\ plan.i = GenCap)

\* the algorithm generateAvailableSubnets is specified by: from address ip on, one
\* block of prefix length mask after the other, a full block further each time,
\* until the address is outside the parent
RECURSIVE stepBlocks(_, _, _)
stepBlocks(parent, ip, mask) ==
    IF ~Contains(parent, ip) THEN <<>>
    ELSE <<[IP |-> MaskIP(ip, mask), Mask |-> mask]>>
         \o stepBlocks(parent, incrementIP(ip, Pow2(32 - mask)), mask)

\* C20: before the reversal the networks of buildSubnetAddress are those of the
\* block-stepping algorithm from the base of the VPC block, in the same order,
\* and no network occurs twice.
C20_SameAsBlockStepping ==
    PlannedSmaller =>
        /\ Reverse(plan.networks) =
              stepBlocks(awsCIDROf(plan.cidr), awsCIDROf(plan.cidr).IP, defaultSubnetMask)
        /\ \A i, j \in 1..Len(plan.networks) :
              i # j => plan.networks[i] # plan.networks[j]

\* eight networks for a /24 given with host bits set
C20_Witness ==
    /\ PlannedSmaller
    /\ plan.cidr = Cidr(<<172, 16, 5, 200>>, 24)
    /\ Len(plan.networks) = 8
    /\ plan.networks[8].IP = <<172, 16, 5, 0>>

\* the requests of the pass of p are CreateSubnet and CreateTags requests, and a
\* CreateTags request is for the subnet the request before it created
OnlyCreateAndTag(p) ==
    \A k \in 1..Len(pass[p].calls) :
        LET c == pass[p].calls[k]
        IN  /\ c.op \in {"CreateSubnet", "CreateTags"}
            /\ c.op = "CreateTags" =>
                  /\ k > 1
                  /\ pass[p].calls[k - 1].op = "CreateSubnet"
                  /\ pass[p].calls[k - 1].err = NoErr
                  /\ pass[p].calls[k - 1].id = c.id
                  /\ c.id \in created

\* C21: a step of a pass removes no subnet, leaves the identifier, VPC, zone and
\* address block of every subnet as they are, and changes the tags of no subnet
\* but, from none to the default tags, those of a subnet a pass created; the
\* requests of a pass are CreateSubnet requests and CreateTags requests for the
\* subnet the pass has just created.
C21_OnlyCreatesAndTagsItsOwn ==
    [][ /\ Len(subnets') >= Len(subnets)
        /\ \A k \in 1..Len(subnets) :
              /\ subnets'[k].SubnetId = subnets[k].SubnetId
              /\ subnets'[k].VpcId = subnets[k].VpcId
              /\ subnets'[k].AvailabilityZone = subnets[k].AvailabilityZone
              /\ subnets'[k].CidrBlock = subnets[k].CidrBlock
              /\ subnets'[k].Tags # subnets[k].Tags =>
                    /\ subnets[k].SubnetId \in created
                    /\ subnets[k].Tags = {}
                    /\ subnets'[k].Tags = DefaultSubnetTags
        /\ \A p \in procs : OnlyCreateAndTag(p)' ]_vars

\* a pass created and tagged a subnet in the zone of a subnet that was there
\* before, and returned
C21_Witness ==
    \E p \in procs : \E i, j \in 1..Len(subnets) :
        /\ pass[p].pc = "done"
        /\ subnets[i].SubnetId \notin created
        /\ subnets[j].SubnetId \in created
        /\ subnets[i].AvailabilityZone = subnets[j].AvailabilityZone
        /\ TaggedOK(p, subnets[j].SubnetId)

\* the base addresses of the blocks of the default prefix length in network n
AlignedBlocks(n) ==
    {incrementIP(n.IP, Pow2(32 - defaultSubnetMask) * k) :
        k \in 0..(Pow2(defaultSubnetMask - n.Mask) - 1)}

\* networks holds each of the blocks once and no more
CompleteFor(networks, blocks) ==
    /\ Len(networks) = Cardinality(blocks)
    /\ \A b \in blocks :
          Cardinality({j \in 1..Len(networks) :
                          networks[j] = [IP |-> b, Mask |-> defaultSubnetMask]}) = 1

\* AlignedBlocks of the VPC blocks of the passes, computed once
alignedBlocksOf == [c \in DOMAIN candidatesOf |-> AlignedBlocks(awsCIDROf(c))]

\* C22: the networks buildSubnetAddress returns for a VPC block of prefix length
\* p below the default mask, and the candidates createPrivateSubnet starts its
\* loop with, are the 2^(27-p) blocks of the default prefix length of the VPC
\* block, each once; and when
\* createPrivateSubnet has run out of candidates every such block overlaps a
\* subnet of the VPC.
C22_CandidatesComplete ==
    /\ PlannedSmaller =>
          /\ Len(plan.networks) = Pow2(defaultSubnetMask - plan.cidr.len)
          /\ CompleteFor(plan.networks, AlignedBlocks(awsCIDROf(plan.cidr)))
    /\ \A p \in procs :
          /\ (pass[p].pc = "createSubnet" /\ pass[p].candIdx = 1) =>
                /\ Len(pass[p].cands) = Pow2(defaultSubnetMask - pass[p].foundVPC.CidrBlock.len)
                /\ CompleteFor(pass[p].cands, alignedBlocksOf[pass[p].foundVPC.CidrBlock])
          /\ (\E i \in 1..Len(pass[p].privSubs) : pass[p].privSubs[i] = NilSubnet) =>
                \A b \in alignedBlocksOf[pass[p].foundVPC.CidrBlock] :
                    ProviderConflict(pass[p].foundVPC.VpcId, Cidr(b, defaultSubnetMask))

\* 32 networks for a /22 at the top of the address space
C22_Witness ==
    /\ PlannedSmaller
    /\ plan.cidr = Cidr(<<255, 255, 255, 255>>, 22)
    /\ Len(plan.networks) = 32
    /\ plan.networks[1].IP = <<255, 255, 255, 224>>

\* GetVPCSubnets has returned to p without an error
VPCSubnetsSucceeded(p) == pass[p].pc = "returned" /\ pass[p].err = <<>>

\* C23: when GetVPCSubnets returns without an error, what it returns is not empty
\* and is the listed subnets of the given VPC; and it returns an error when no
\* listed subnet belongs to the VPC and when the VPC is nil.
C23_VPCSubnetsOrError ==
    \A p \in procs :
        /\ VPCSubnetsSucceeded(p) =>
              /\ pass[p].subs # <<>>
              /\ pass[p].subs = associatedSubs(subnets, pass[p].foundVPC)
        /\ ( /\ pass[p].pc = "returned"
             /\ \/ pass[p].foundVPC = NilVpc
                \/ associatedSubs(subnets, pass[p].foundVPC) = <<>> )
           => pass[p].err # <<>>

\* C23 for a VPC that is not nil
C23_VPCSubnetsOrErrorGivenVpc ==
    \A p \in procs :
        pass[p].foundVPC # NilVpc =>
            /\ VPCSubnetsSucceeded(p) =>
                  /\ pass[p].subs # <<>>
                  /\ pass[p].subs = associatedSubs(subnets, pass[p].foundVPC)
            /\ (pass[p].pc = "returned" /\ associatedSubs(subnets, pass[p].foundVPC) = <<>>)
               => pass[p].err # <<>>

====
